---- MODULE Spec2Model ----
(***************************************************************************)
(* A model of the Enhanced FCPXML Importer (src/__init__.py): the media    *)
(* resolver and its filename cache, the parser's field extraction, and the *)
(* operator's execute -> import_sequence run against the host sequencer.   *)
(*                                                                         *)
(* Python strings are sequences of one-character strings; "" is << >>.     *)
(* An Optional[str] (an element's .text, a clip's name or file_path) is a  *)
(* record [isNone, str].                                                   *)
(***************************************************************************)
EXTENDS Integers, Sequences, FiniteSets, TLC

(***************************************************************************)
(* Strings                                                                 *)
(***************************************************************************)
UpperLetters == <<"A","B","C","D","E","F","G","H","I","J","K","L","M",
                  "N","O","P","Q","R","S","T","U","V","W","X","Y","Z">>

LowerLetters == <<"a","b","c","d","e","f","g","h","i","j","k","l","m",
                  "n","o","p","q","r","s","t","u","v","w","x","y","z">>

\* str.lower() on one character
LowerChar(c) ==
    IF \E i \in DOMAIN UpperLetters : UpperLetters[i] = c
    THEN LowerLetters[CHOOSE i \in DOMAIN UpperLetters : UpperLetters[i] = c]
    ELSE c

\* str.lower()
Lower(s) == [i \in DOMAIN s |-> LowerChar(s[i])]

\* the operator "a in b" of two Python strings: a is a substring of b
IsSubstr(a, b) ==
    \E k \in 0..(Len(b) - Len(a)) :
        \A i \in 1..Len(a) : b[k + i] = a[i]

PyNone == [isNone |-> TRUE, str |-> << >>]

PyStr(s) == [isNone |-> FALSE, str |-> s]

(***************************************************************************)
(* os.path on the two platforms the host runs on                           *)
(***************************************************************************)
Platforms == {"posix", "nt"}

\* os.sep
Sep(plat) == IF plat = "nt" THEN "\\" ELSE "/"

\* the characters os.path.basename splits at
IsSep(plat, c) == c = "/" \/ (plat = "nt" /\ c = "\\")

\* os.path.basename: what follows the last separator
basename(plat, p) ==
    LET cuts == {i \in DOMAIN p : IsSep(plat, p[i])}
        last == IF cuts = {} THEN 0
                ELSE CHOOSE i \in cuts : \A j \in cuts : j <= i
    IN  SubSeq(p, last + 1, Len(p))

\* os.path.normcase: the identity on posix; lower case and "/" -> "\" on nt
normcase(plat, s) ==
    IF plat = "nt"
    THEN [i \in DOMAIN s |-> IF s[i] = "/" THEN "\\" ELSE LowerChar(s[i])]
    ELSE s

\* os.path.normpath(os.path.join(root, filename)) of a walked directory and
\* a file name in it
full_path(plat, root, filename) == root \o <<Sep(plat)>> \o filename

(***************************************************************************)
(* MediaResolver                                                           *)
(*                                                                         *)
(* A file system is a function from directory to [exists, files]: files is *)
(* the os.walk listing of the tree, in the order os.walk yields it.        *)
(* file_cache is a Python dict: a sequence of [name, path] with distinct   *)
(* names, in insertion order.                                              *)
(***************************************************************************)
HasKey(cache, k) == \E i \in DOMAIN cache : cache[i].name = k

\* cache[k]
Lookup(cache, k) == cache[CHOOSE i \in DOMAIN cache : cache[i].name = k].path

\* cache[k] = v: an existing key keeps its place, a new key goes last
DictSet(cache, k, v) ==
    IF HasKey(cache, k)
    THEN [i \in DOMAIN cache |->
            IF cache[i].name = k THEN [name |-> k, path |-> v] ELSE cache[i]]
    ELSE Append(cache, [name |-> k, path |-> v])

\* the inner loop of _build_file_cache over one walked tree
RECURSIVE CacheFiles(_, _, _, _)
CacheFiles(plat, cache, root, files) ==
    IF files = << >> THEN cache
    ELSE CacheFiles(plat,
                    DictSet(cache, normcase(plat, Head(files)),
                            full_path(plat, root, Head(files))),
                    root, Tail(files))

RECURSIVE CachePaths(_, _, _, _)
CachePaths(plat, filesystem, cache, paths) ==
    IF paths = << >> THEN cache
    ELSE LET path == Head(paths)
         IN  IF ~filesystem[path].exists
             THEN CachePaths(plat, filesystem, cache, Tail(paths))
             ELSE CachePaths(plat, filesystem,
                             CacheFiles(plat, cache, path, filesystem[path].files),
                             Tail(paths))

_build_file_cache(plat, filesystem, paths) ==
    CachePaths(plat, filesystem, << >>, paths)

\* the list comprehension "matches" of resolve_media_path
Matches(cache, normalized_name) ==
    SelectSeq(cache, LAMBDA e : IsSubstr(normalized_name, e.name))

\* resolve_media_path with the partial match tried before the direct lookup
resolve_partial_first(plat, cache, original_path) ==
    LET normalized_name == normcase(plat, basename(plat, original_path))
        matches == Matches(cache, normalized_name)
    IN  IF matches # << >> THEN matches[1].path
        ELSE IF HasKey(cache, normalized_name) THEN Lookup(cache, normalized_name)
        ELSE << >>

resolve_media_path(plat, cache, original_path) ==
    LET normalized_name == normcase(plat, basename(plat, original_path))
        matches == Matches(cache, normalized_name)
    IN  IF HasKey(cache, normalized_name) THEN Lookup(cache, normalized_name)
        ELSE IF matches # << >> THEN matches[1].path
        ELSE << >>

(***************************************************************************)
(* The document                                                            *)
(*                                                                         *)
(* A document is [wellFormed, nodes]: nodes lists the sequence, track and  *)
(* clipitem elements in document order, a track belonging to the sequence  *)
(* element before it and a clipitem to the track element before it.  A     *)
(* child element that find() looks up is [present, text]; the text of an   *)
(* empty element is None, as ElementTree gives it.                         *)
(***************************************************************************)
Absent == [present |-> FALSE, text |-> PyNone]

Elem(t) == [present |-> TRUE, text |-> t]

DigitChars == <<"0","1","2","3","4","5","6","7","8","9">>

IsDigit(c) == \E i \in DOMAIN DigitChars : DigitChars[i] = c

DigitVal(c) == (CHOOSE i \in DOMAIN DigitChars : DigitChars[i] = c) - 1

RECURSIVE DigitsVal(_)
DigitsVal(s) ==
    IF s = << >> THEN 0
    ELSE 10 * DigitsVal(SubSeq(s, 1, Len(s) - 1)) + DigitVal(s[Len(s)])

\* the strings int() accepts: an optional sign and at least one digit
IsNumeral(s) ==
    LET body == IF s # << >> /\ Head(s) \in {"-", "+"} THEN Tail(s) ELSE s
    IN  body # << >> /\ \A i \in DOMAIN body : IsDigit(body[i])

\* int(s) of such a string
int(s) ==
    IF Head(s) = "-" THEN 0 - DigitsVal(Tail(s))
    ELSE IF Head(s) = "+" THEN DigitsVal(Tail(s))
    ELSE DigitsVal(s)

Ok(v) == [err |-> "none", val |-> v]

Raise(e) == [err |-> e, val |-> 0]

\* int(node.find(tag).text or default)
IntField(child, default) ==
    IF ~child.present THEN Raise("AttributeError")
    ELSE IF child.text.isNone \/ child.text.str = << >> THEN Ok(default)
    ELSE IF IsNumeral(child.text.str) THEN Ok(int(child.text.str))
    ELSE Raise("ValueError")

\* node.find(tag).text if node.find(tag) is not None else default
TextField(child, default) ==
    IF child.present THEN child.text ELSE PyStr(default)

\* the first exception raised by a list of evaluations, in order
RECURSIVE FirstErr(_)
FirstErr(rs) ==
    IF rs = << >> THEN "none"
    ELSE IF Head(rs).err # "none" THEN Head(rs).err
    ELSE FirstErr(Tail(rs))

UnnamedSequence == <<"U","n","n","a","m","e","d"," ","S","e","q","u","e","n","c","e">>

UnnamedClip == <<"U","n","n","a","m","e","d"," ","C","l","i","p">>

_extract_clip_data(clip) ==
    LET start == IntField(clip.start, 0)
        end == IntField(clip.end, 0)
        in_frame == IntField(clip.in, 0)
        out_frame == IntField(clip.out, 0)
        err == FirstErr(<<start, end, in_frame, out_frame>>)
    IN  IF err # "none" THEN Raise(err)
        ELSE Ok([type |-> IF clip.video THEN "video" ELSE "audio",
                 name |-> TextField(clip.name, UnnamedClip),
                 start |-> start.val,
                 end |-> end.val,
                 in_frame |-> in_frame.val,
                 out_frame |-> out_frame.val,
                 file_path |-> TextField(clip.pathurl, << >>)])

\* track.findall("clipitem"): the clipitem elements of a track
RECURSIVE TakeClips(_)
TakeClips(ns) ==
    IF ns = << >> \/ Head(ns).tag # "clipitem" THEN << >>
    ELSE <<Head(ns)>> \o TakeClips(Tail(ns))

\* sequence.findall(".//track"): the track elements under a sequence
RECURSIVE TrackNodes(_)
TrackNodes(ns) ==
    IF ns = << >> \/ Head(ns).tag = "sequence" THEN << >>
    ELSE IF Head(ns).tag = "track"
         THEN <<TakeClips(Tail(ns))>> \o TrackNodes(Tail(ns))
         ELSE TrackNodes(Tail(ns))

\* root.findall(".//sequence"): the sequence elements, each with its tracks
RECURSIVE SequenceNodes(_)
SequenceNodes(ns) ==
    IF ns = << >> THEN << >>
    ELSE IF Head(ns).tag = "sequence"
         THEN <<[node |-> Head(ns), tracks |-> TrackNodes(Tail(ns))]>>
              \o SequenceNodes(Tail(ns))
         ELSE SequenceNodes(Tail(ns))

\* the two loops of _extract_sequence_data, flattened: every clip's extraction
ExtractTracks(tracks) ==
    [t \in DOMAIN tracks |->
        [c \in DOMAIN tracks[t] |-> _extract_clip_data(tracks[t][c])]]

\* the extractions of all clips of all tracks, in the order they are made
RECURSIVE Flatten(_)
Flatten(ss) == IF ss = << >> THEN << >> ELSE Head(ss) \o Flatten(Tail(ss))

_extract_sequence_data(sequence) ==
    LET node == sequence.node
        duration == IntField(node.duration, 0)
        rate == IntField(node.timebase, 30)
        width == IntField(node.width, 1920)
        height == IntField(node.height, 1080)
        clips == ExtractTracks(sequence.tracks)
        err == FirstErr(<<duration, rate, width, height>> \o Flatten(clips))
    IN  IF err # "none" THEN Raise(err)
        ELSE Ok([name |-> TextField(node.name, UnnamedSequence),
                 duration |-> duration.val,
                 rate |-> rate.val,
                 width |-> width.val,
                 height |-> height.val,
                 tracks |-> [t \in DOMAIN clips |->
                               [clips |-> [c \in DOMAIN clips[t] |-> clips[t][c].val]]]])

\* parse keeping what was read before the syntax error
parse_partial(document) ==
    LET found == SequenceNodes(document.nodes)
        data == [i \in DOMAIN found |-> _extract_sequence_data(found[i])]
        err == FirstErr(data)
    IN  IF err # "none" THEN Raise(err)
        ELSE Ok([i \in DOMAIN data |-> data[i].val])

\* FCPXMLParser.parse: ET.ParseError is caught and gives []; any other
\* exception of the extraction leaves parse
parse(document) ==
    IF ~document.wellFormed THEN Ok(<< >>)
    ELSE LET found == SequenceNodes(document.nodes)
             data == [i \in DOMAIN found |-> _extract_sequence_data(found[i])]
             err == FirstErr(data)
         IN  IF err # "none" THEN Raise(err)
             ELSE Ok([i \in DOMAIN data |-> data[i].val])

(***************************************************************************)
(* The operator's state                                                    *)
(***************************************************************************)
VARIABLES
    platform,           \* the os.path flavour of the host's Python
    fs,                 \* the file system os.path.exists / os.walk read
    document,           \* the content of self.filepath
    pc,                 \* where execute is
    error,              \* the exception that left execute, "none" if none
    search_paths,       \* MediaResolver.search_paths
    file_cache,         \* MediaResolver.file_cache
    sequences,          \* the list FCPXMLParser.parse returned
    si,                 \* execute's loop: the index of the current sequence
    pos,                \* import_sequence's loops: the index of the current clip
    resolved_path,      \* import_sequence's resolved_path
    sequence_missing,   \* import_sequence's missing_files
    missing_files,      \* execute's missing_files
    report,             \* the self.report calls of this execute
    resolutions,        \* the resolve_media_path calls of this execute, in order
    host,               \* the calls made on context.scene, in order
    mark,               \* Len(host) when this execute began
    parses,             \* how many times FCPXMLParser.parse was called
    prev_missing,       \* missing_files of the execute before this one
    prev_cache          \* file_cache of the execute before this one

vars == <<platform, fs, document, pc, error, search_paths, file_cache, sequences,
          si, pos, resolved_path, sequence_missing, missing_files, report,
          resolutions, host, mark, parses, prev_missing, prev_cache>>

\* os.path.dirname(self.filepath)
ProjDir == <<"p">>

\* the directory a caller can add to self.search_paths
MediaDir == <<"m">>

Dirs == {ProjDir, MediaDir}

video_channel == 2

audio_channel == 1

\* the (track, clip) index pairs of a parsed sequence in the order of the two
\* for loops of import_sequence
RECURSIVE TrackPositions(_, _)
TrackPositions(tracks, t) ==
    IF t > Len(tracks) THEN << >>
    ELSE [c \in 1..Len(tracks[t].clips) |-> <<t, c>>] \o TrackPositions(tracks, t + 1)

Positions(sequence) == TrackPositions(sequence.tracks, 1)

ClipAt(sequence, p) == sequence.tracks[p[1]].clips[p[2]]

\* the clip the loops of import_sequence are at
CurrentClip == ClipAt(sequences[si], Positions(sequences[si])[pos])

Range(f) == {f[i] : i \in DOMAIN f}

(***************************************************************************)
(* The inputs of a run: the platform, the file system and the document.    *)
(* Four families of inputs start a run; each family varies one part.       *)
(***************************************************************************)
MaxNodes == 6

MaxPathLen == 2

MaxFiles == 2

MaxFrame == 2

Strings(chars, n) == UNION {[1..k -> chars] : k \in 0..n}

RECURSIVE NatNumeral(_)
NatNumeral(n) ==
    IF n < 10 THEN <<DigitChars[n + 1]>>
    ELSE NatNumeral(n \div 10) \o <<DigitChars[(n % 10) + 1]>>

\* the decimal text of an integer, as a document writes it
Numeral(n) == IF n < 0 THEN <<"-">> \o NatNumeral(0 - n) ELSE NatNumeral(n)

Text(s) == Elem(PyStr(s))

SeqTok(name, duration, timebase, width, height) ==
    [tag |-> "sequence", name |-> name, duration |-> duration, timebase |-> timebase,
     width |-> width, height |-> height]

TrackTok == [tag |-> "track"]

ClipTok(video, name, start, end, in, out, pathurl) ==
    [tag |-> "clipitem", video |-> video, name |-> name, start |-> start, end |-> end,
     in |-> in, out |-> out, pathurl |-> pathurl]

\* a sequence element with all its children
FullSeq ==
    SeqTok(Text(<<"s">>), Text(Numeral(4)), Text(Numeral(25)),
           Text(Numeral(640)), Text(Numeral(480)))

\* a video clip of a file of the project directory
ClipA ==
    ClipTok(TRUE, Text(<<"v">>), Text(Numeral(500)), Text(Numeral(600)),
            Text(Numeral(10)), Text(Numeral(110)), Text(<<"f", "/", "a">>))

\* an audio clip, out before in, of a file that is only in the media directory
ClipX ==
    ClipTok(FALSE, Text(<<"x">>), Text(Numeral(5)), Text(Numeral(7)),
            Text(Numeral(9)), Text(Numeral(2)), Text(<<"x">>))

\* a clip of the file with this raw path: no pathurl element gives ""
ClipOf(p) ==
    ClipTok(TRUE, Text(<<"v">>), Text(Numeral(5)), Text(Numeral(9)),
            Text(Numeral(1)), Text(Numeral(5)),
            IF p = << >> THEN Absent ELSE Text(p))

\* a sequence element is at the top, a track in a sequence, a clipitem in a track
Nested(ns) ==
    \A i \in DOMAIN ns :
        IF ns[i].tag = "sequence" THEN TRUE
        ELSE i > 1 /\ (ns[i].tag = "clipitem" => ns[i - 1].tag # "sequence")

Doc(ns) == [wellFormed |-> TRUE, nodes |-> ns]

\* family 1: documents of up to MaxNodes elements, well-formed or not
RunDocuments ==
    {[wellFormed |-> w, nodes |-> ns] :
        w \in BOOLEAN,
        ns \in {x \in Strings({FullSeq, TrackTok, ClipA, ClipX}, MaxNodes) : Nested(x)}}

Tree(files) == [exists |-> TRUE, files |-> files]

NoTree == [exists |-> FALSE, files |-> << >>]

FileSystem(proj, media) == [d \in Dirs |-> IF d = ProjDir THEN proj ELSE media]

RunFileSystems ==
    {FileSystem(Tree(<<<<"a">>>>), media) : media \in {NoTree, Tree(<<<<"x">>>>)}}

\* family 2: one clip, any raw path; any listing of the project directory
NoneString == <<"N", "o", "n", "e">>

ClipAMov == <<"f","o","o","t","a","g","e","/","c","l","i","p","_","A",".","m","o","v">>

ClipAFinalMov == <<"A","_","c","l","i","p","_","A","_","f","i","n","a","l",".","m","o","v">>

RawPaths == Strings({"a", "A", "/"}, MaxPathLen) \cup {NoneString, ClipAMov}

AClipAMov == <<"A","_","c","l","i","p","_","A",".","m","o","v">>

IndexNames == {<<"a">>, <<"A">>, <<"b","a">>, <<"N","o","n","e","2">>,
               ClipAFinalMov, AClipAMov}

Listings ==
    {l \in Strings(IndexNames, MaxFiles) :
        \A i, j \in DOMAIN l : i # j => l[i] # l[j]}

\* family 3: one sequence or one clip, each child absent, empty, a number or not
NumChildren == {Absent, Elem(PyNone), Text(Numeral(7)), Text(<<"x">>)}

NameChildren == {Absent, Elem(PyNone), Text(<<"n">>)}

PathChildren == {Absent, Elem(PyNone), Text(<<"a">>)}

SeqVariants ==
    {SeqTok(n, d, r, w, h) :
        n \in NameChildren, d \in NumChildren, r \in NumChildren,
        w \in NumChildren, h \in NumChildren}

ClipVariants ==
    {ClipTok(v, n, s, e, i, o, p) :
        v \in BOOLEAN, n \in NameChildren, s \in NumChildren, e \in NumChildren,
        i \in NumChildren, o \in NumChildren, p \in PathChildren}

\* family 4: one clip, any start, in and out
Frames == {Text(Numeral(n)) : n \in (0 - MaxFrame)..MaxFrame}

TimedClips ==
    {ClipTok(v, Text(<<"v">>), s, Text(Numeral(0)), i, o, Text(<<"a">>)) :
        v \in BOOLEAN, s \in Frames, i \in Frames, o \in Frames}

InitInputs ==
    \/ /\ document \in RunDocuments
       /\ fs = FileSystem(Tree(<<<<"a">>>>), Tree(<<<<"x">>>>))
    \/ /\ document \in {Doc(<<FullSeq, TrackTok, ClipOf(p)>>) : p \in RawPaths}
       /\ fs \in {FileSystem(Tree(l), Tree(<<<<"b">>>>)) : l \in Listings}
    \/ /\ document \in {Doc(<<s, TrackTok, ClipA>>) : s \in SeqVariants}
                       \cup {Doc(<<FullSeq, TrackTok, c>>) : c \in ClipVariants}
       /\ fs = FileSystem(Tree(<<<<"a">>>>), NoTree)
    \/ /\ document \in {Doc(<<FullSeq, TrackTok, c, TrackTok, c>>) : c \in TimedClips}
       /\ fs \in RunFileSystems

Init ==
    /\ platform \in Platforms
    /\ InitInputs
    /\ pc = "idle"
    /\ error = "none"
    /\ search_paths = << >>
    /\ file_cache = << >>
    /\ sequences = << >>
    /\ si = 1
    /\ pos = 1
    /\ resolved_path = << >>
    /\ sequence_missing = << >>
    /\ missing_files = << >>
    /\ report = << >>
    /\ resolutions = << >>
    /\ host = << >>
    /\ mark = 0
    /\ parses = 0
    /\ prev_missing = << >>
    /\ prev_cache = << >>

(***************************************************************************)
(* execute, lines 244-247: the search paths and the resolver's cache       *)
(***************************************************************************)
execute(extra) ==
    /\ search_paths' = <<ProjDir>> \o extra
    /\ file_cache' = _build_file_cache(platform, fs, <<ProjDir>> \o extra)
    /\ prev_cache' = file_cache
    /\ prev_missing' = missing_files
    /\ mark' = Len(host)
    /\ pc' = "parse"
    /\ error' = "none"
    /\ sequences' = << >>
    /\ missing_files' = << >>
    /\ sequence_missing' = << >>
    /\ resolved_path' = << >>
    /\ report' = << >>
    /\ resolutions' = << >>
    /\ si' = 1
    /\ pos' = 1
    /\ UNCHANGED <<platform, fs, document, host, parses>>

\* the operator is run, with or without extra search paths
Invoke ==
    /\ pc = "idle"
    /\ \E extra \in {<< >>, <<MediaDir>>} : execute(extra)

\* the operator is run again with one more search path, after a run that
\* reported missing files
Retry ==
    /\ pc = "finished"
    /\ missing_files # << >>
    /\ \E d \in Dirs \ Range(search_paths) : execute(Tail(search_paths) \o <<d>>)

(***************************************************************************)
(* execute, lines 248-250                                                  *)
(***************************************************************************)
Parse ==
    /\ pc = "parse"
    /\ parses' = parses + 1
    /\ LET r == parse(document)
       IN  IF r.err # "none"
           THEN /\ pc' = "aborted"
                /\ error' = r.err
                /\ UNCHANGED sequences
           ELSE /\ pc' = "loop"
                /\ sequences' = r.val
                /\ UNCHANGED error
    /\ UNCHANGED <<platform, fs, document, search_paths, file_cache, si, pos,
                   resolved_path, sequence_missing, missing_files, report, resolutions, host,
                   mark, prev_missing, prev_cache>>

(***************************************************************************)
(* import_sequence, lines 195-205: configure_scene                         *)
(***************************************************************************)
configure_scene(s, width, height, fps, duration) ==
    [op |-> "configure", seq |-> s,
     resolution_x |-> width, resolution_y |-> height, fps |-> fps,
     frame_start |-> 1, frame_end |-> duration * fps]

\* import_sequence configuring the scene for the first sequence only
ImportSequenceConfiguresFirst ==
    /\ pc = "loop"
    /\ si <= Len(sequences)
    /\ LET sequence == sequences[si]
       IN  host' = IF si > 1 THEN host
                   ELSE Append(host, configure_scene(si, sequence.width, sequence.height,
                                                     sequence.rate, sequence.duration))
    /\ sequence_missing' = << >>
    /\ pos' = 1
    /\ pc' = "clips"
    /\ UNCHANGED <<platform, fs, document, error, search_paths, file_cache, sequences,
                   si, resolved_path, missing_files, report, resolutions, mark, parses,
                   prev_missing, prev_cache>>

ImportSequence ==
    /\ pc = "loop"
    /\ si <= Len(sequences)
    /\ LET sequence == sequences[si]
       IN  host' = Append(host, configure_scene(si, sequence.width, sequence.height,
                                                sequence.rate, sequence.duration))
    /\ sequence_missing' = << >>
    /\ pos' = 1
    /\ pc' = "clips"
    /\ UNCHANGED <<platform, fs, document, error, search_paths, file_cache, sequences,
                   si, resolved_path, missing_files, report, resolutions, mark, parses,
                   prev_missing, prev_cache>>

(***************************************************************************)
(* import_sequence, line 209                                               *)
(***************************************************************************)
Resolve ==
    /\ pc = "clips"
    /\ pos <= Len(Positions(sequences[si]))
    /\ IF CurrentClip.file_path.isNone
       THEN \* os.path.basename(None)
            /\ pc' = "aborted"
            /\ error' = "TypeError"
            /\ UNCHANGED <<resolved_path, resolutions>>
       ELSE /\ resolved_path' =
                    resolve_media_path(platform, file_cache, CurrentClip.file_path.str)
            /\ resolutions' = Append(resolutions,
                    [seq |-> si, at |-> Positions(sequences[si])[pos],
                     original_path |-> CurrentClip.file_path.str,
                     result |-> resolve_media_path(platform, file_cache,
                                                   CurrentClip.file_path.str)])
            /\ pc' = "resolved"
            /\ UNCHANGED error
    /\ UNCHANGED <<platform, fs, document, search_paths, file_cache, sequences, si, pos,
                   sequence_missing, missing_files, report, host, mark, parses,
                   prev_missing, prev_cache>>

(***************************************************************************)
(* import_sequence, lines 211-213                                          *)
(***************************************************************************)
\* lines 211-213 with break in the place of continue: the rest of the
\* sequence's clips are skipped
RecordMissingBreaks ==
    /\ pc = "resolved"
    /\ resolved_path = << >>
    /\ sequence_missing' = Append(sequence_missing, CurrentClip.file_path.str)
    /\ pos' = Len(Positions(sequences[si])) + 1
    /\ pc' = "clips"
    /\ UNCHANGED <<platform, fs, document, error, search_paths, file_cache, sequences,
                   si, resolved_path, missing_files, report, resolutions, host, mark,
                   parses, prev_missing, prev_cache>>

RecordMissing ==
    /\ pc = "resolved"
    /\ resolved_path = << >>
    /\ sequence_missing' = Append(sequence_missing, CurrentClip.file_path.str)
    /\ pos' = pos + 1
    /\ pc' = "clips"
    /\ UNCHANGED <<platform, fs, document, error, search_paths, file_cache, sequences,
                   si, resolved_path, missing_files, report, resolutions, host, mark, parses,
                   prev_missing, prev_cache>>

(***************************************************************************)
(* import_sequence, lines 215-231: the strip and the values set on it      *)
(***************************************************************************)
\* the strip left at the frame_start the call gave it
new_strip_at_start(s, p, clip, filepath) ==
    [op |-> IF clip.type = "video" THEN "new_movie" ELSE "new_sound",
     seq |-> s, track |-> p[1], clip |-> p[2],
     name |-> clip.name,
     filepath |-> filepath,
     channel |-> IF clip.type = "video" THEN video_channel ELSE audio_channel,
     frame_final_end |-> clip.start + (clip.out_frame - clip.in_frame),
     frame_start |-> clip.start,
     frame_offset_start |-> clip.start,
     frame_final_duration |-> clip.out_frame - clip.in_frame]

new_strip(s, p, clip, filepath) ==
    [op |-> IF clip.type = "video" THEN "new_movie" ELSE "new_sound",
     seq |-> s, track |-> p[1], clip |-> p[2],
     name |-> clip.name,
     filepath |-> filepath,
     channel |-> IF clip.type = "video" THEN video_channel ELSE audio_channel,
     frame_final_end |-> clip.start + (clip.out_frame - clip.in_frame),
     frame_start |-> clip.start - clip.in_frame,
     frame_offset_start |-> clip.start,
     frame_final_duration |-> clip.out_frame - clip.in_frame]

PlaceStrip ==
    /\ pc = "resolved"
    /\ resolved_path # << >>
    /\ host' = Append(host, new_strip(si, Positions(sequences[si])[pos],
                                      CurrentClip, resolved_path))
    /\ pos' = pos + 1
    /\ pc' = "clips"
    /\ UNCHANGED <<platform, fs, document, error, search_paths, file_cache, sequences,
                   si, resolved_path, sequence_missing, missing_files, report, resolutions, mark,
                   parses, prev_missing, prev_cache>>

\* new_movie / new_sound raises: nothing in import_sequence or execute catches it
PlaceFails ==
    /\ pc = "resolved"
    /\ resolved_path # << >>
    /\ pc' = "aborted"
    /\ error' = "RuntimeError"
    /\ UNCHANGED <<platform, fs, document, search_paths, file_cache, sequences, si, pos,
                   resolved_path, sequence_missing, missing_files, report, resolutions, host, mark,
                   parses, prev_missing, prev_cache>>

(***************************************************************************)
(* import_sequence, line 233, and execute, lines 252-253                   *)
(***************************************************************************)
ReturnSequence ==
    /\ pc = "clips"
    /\ pos > Len(Positions(sequences[si]))
    /\ missing_files' = missing_files \o sequence_missing
    /\ sequence_missing' = << >>
    /\ si' = si + 1
    /\ pc' = "loop"
    /\ UNCHANGED <<platform, fs, document, error, search_paths, file_cache, sequences,
                   pos, resolved_path, report, resolutions, host, mark, parses,
                   prev_missing, prev_cache>>

(***************************************************************************)
(* execute, lines 255-258                                                  *)
(***************************************************************************)
Finish ==
    /\ pc = "loop"
    /\ si > Len(sequences)
    /\ report' = IF missing_files # << >> THEN <<Len(missing_files)>> ELSE << >>
    /\ pc' = "finished"
    /\ UNCHANGED <<platform, fs, document, error, search_paths, file_cache, sequences,
                   si, pos, resolved_path, sequence_missing, missing_files, resolutions, host, mark,
                   parses, prev_missing, prev_cache>>

Next ==
    \/ Invoke
    \/ Retry
    \/ Parse
    \/ ImportSequence
    \/ Resolve
    \/ RecordMissing
    \/ PlaceStrip
    \/ PlaceFails
    \/ ReturnSequence
    \/ Finish

Spec == Init /\ [][Next]_vars

(***************************************************************************)
(* What a run has done so far                                              *)
(***************************************************************************)
\* the host calls of this execute
ThisRun == SubSeq(host, mark + 1, Len(host))

Strips == SelectSeq(ThisRun, LAMBDA e : e.op # "configure")

Configures(s) == SelectSeq(ThisRun, LAMBDA e : e.op = "configure" /\ e.seq = s)

\* every raw path recorded as missing so far, in the order recorded
MissingSoFar == missing_files \o sequence_missing

\* the clips of the parsed sequences, as <<sequence, <<track, clip>>>>, in
\* document order
RECURSIVE ClipsFrom(_)
ClipsFrom(s) ==
    IF s > Len(sequences) THEN << >>
    ELSE LET ps == Positions(sequences[s])
         IN  [k \in DOMAIN ps |-> <<s, ps[k]>>] \o ClipsFrom(s + 1)

AllClips == ClipsFrom(1)

\* a resolution whose outcome has not been acted on yet, or never will be
Pending == IF pc = "resolved" \/ (pc = "aborted" /\ error = "RuntimeError") THEN 1 ELSE 0

Settled == SubSeq(resolutions, 1, Len(resolutions) - Pending)

(***************************************************************************)
(* C1: in a run every clip of every track of every parsed sequence is      *)
(* resolved once, in document order, and each resolved clip is then placed *)
(* (a non-empty result) or recorded as missing (an empty result); a        *)
(* missing clip never ends the run: a run that ends early ends with an     *)
(* exception, and at the return of execute every clip has been resolved    *)
(* and placed + missing = the number of clips.                             *)
(***************************************************************************)
C1_EveryClipPlacedOrMissing ==
    /\ Len(resolutions) <= Len(AllClips)
    /\ \A k \in DOMAIN resolutions :
          <<resolutions[k].seq, resolutions[k].at>> = AllClips[k]
    /\ LET missed == SelectSeq(Settled, LAMBDA r : r.result = << >>)
           placed == SelectSeq(Settled, LAMBDA r : r.result # << >>)
       IN  /\ MissingSoFar = [k \in DOMAIN missed |-> missed[k].original_path]
           /\ Len(Strips) = Len(placed)
           /\ \A k \in DOMAIN placed :
                 /\ Strips[k].seq = placed[k].seq
                 /\ <<Strips[k].track, Strips[k].clip>> = placed[k].at
    /\ pc = "aborted" =>
          /\ error # "none"
          /\ error = "RuntimeError" => resolutions[Len(resolutions)].result # << >>
    /\ pc = "finished" =>
          /\ Len(resolutions) = Len(AllClips)
          /\ Len(Strips) + Len(missing_files) = Len(AllClips)

\* a finished run of three clips: one placed, one missing, one placed
C1_Witness ==
    /\ pc = "finished"
    /\ Len(resolutions) = 3
    /\ resolutions[1].result # << >>
    /\ resolutions[2].result = << >>
    /\ resolutions[3].result # << >>
    /\ Len(Strips) = 2
    /\ Len(missing_files) = 1

(***************************************************************************)
(* C6: when the document is not well-formed XML, parse returns the empty   *)
(* list: no sequence record exists, no configure and no strip call reaches *)
(* the host, nothing is resolved and the missing report stays empty.       *)
(***************************************************************************)
C6_MalformedDocumentImportsNothing ==
    ~document.wellFormed =>
        /\ sequences = << >>
        /\ host = << >>
        /\ resolutions = << >>
        /\ MissingSoFar = << >>
        /\ report = << >>
        /\ error = "none"

\* a malformed document with a clip in it, after execute returned
C6_Witness ==
    /\ ~document.wellFormed
    /\ \E i \in DOMAIN document.nodes : document.nodes[i].tag = "clipitem"
    /\ pc = "finished"
    /\ parses = 1

(***************************************************************************)
(* C8: each sequence gets one configure call, with its width, height,      *)
(* rate and frame range, before any of its clips is resolved or placed:    *)
(* at most one call per sequence at any time, exactly one once the         *)
(* sequence is begun, and every resolution and every strip of a sequence   *)
(* comes after the configure call of that sequence.                        *)
(***************************************************************************)
C8_ConfigureOncePerSequenceFirst ==
    /\ \A s \in DOMAIN sequences :
          /\ Len(Configures(s)) <= 1
          /\ (s < si \/ pc = "finished" \/ (s = si /\ pc \in {"clips", "resolved"}))
                => Len(Configures(s)) = 1
          /\ \A k \in DOMAIN Configures(s) :
                Configures(s)[k] =
                    [op |-> "configure", seq |-> s,
                     resolution_x |-> sequences[s].width,
                     resolution_y |-> sequences[s].height,
                     fps |-> sequences[s].rate,
                     frame_start |-> 1,
                     frame_end |-> sequences[s].duration * sequences[s].rate]
    /\ \A k \in DOMAIN resolutions : Len(Configures(resolutions[k].seq)) = 1
    /\ \A j \in DOMAIN ThisRun :
          ThisRun[j].op # "configure" =>
              \E i \in 1..(j - 1) :
                  ThisRun[i].op = "configure" /\ ThisRun[i].seq = ThisRun[j].seq

\* two sequences, each with a placed clip
C8_Witness ==
    /\ pc = "finished"
    /\ Len(sequences) = 2
    /\ \E i, j \in DOMAIN Strips : Strips[i].seq = 1 /\ Strips[j].seq = 2

(***************************************************************************)
(* C9: the values set on a placed strip are frame_start = start - in,      *)
(* frame_final_end = start + (out - in), frame_offset_start = start,       *)
(* frame_final_duration = out - in, and channel 2 for a video clip, 1 for  *)
(* an audio clip, whatever track the clip is in and also when out < in;    *)
(* in 10, out 110, start 500 give 490, 600, 500 and 100.                   *)
(***************************************************************************)
C9_PlacementValues ==
    \A k \in DOMAIN Strips :
        LET e == Strips[k]
            clip == ClipAt(sequences[e.seq], <<e.track, e.clip>>)
        IN  /\ e.frame_start = clip.start - clip.in_frame
            /\ e.frame_final_end = clip.start + (clip.out_frame - clip.in_frame)
            /\ e.frame_offset_start = clip.start
            /\ e.frame_final_duration = clip.out_frame - clip.in_frame
            /\ e.channel = IF clip.type = "video" THEN 2 ELSE 1
            /\ e.op = IF clip.type = "video" THEN "new_movie" ELSE "new_sound"
            /\ (clip.in_frame = 10 /\ clip.out_frame = 110 /\ clip.start = 500) =>
                  /\ e.frame_start = 490
                  /\ e.frame_final_end = 600
                  /\ e.frame_offset_start = 500
                  /\ e.frame_final_duration = 100

\* the strip of the example, and an audio strip of negative duration in the
\* second track
C9_Witness ==
    \E i, j \in DOMAIN Strips :
        /\ Strips[i].frame_start = 490 /\ Strips[i].frame_final_end = 600
        /\ Strips[i].channel = 2
        /\ Strips[j].frame_final_duration < 0 /\ Strips[j].channel = 1
        /\ Strips[j].track = 2

(***************************************************************************)
(* C2: a clip whose raw path is "" or "None" is always Missing: its        *)
(* resolution is empty whatever the cache holds, and no strip is placed    *)
(* for it.                                                                 *)
(***************************************************************************)
C2_EmptyOrNoneIsMissing ==
    /\ \A k \in DOMAIN resolutions :
          resolutions[k].original_path \in {<< >>, NoneString}
              => resolutions[k].result = << >>
    /\ \A k \in DOMAIN Strips :
          ClipAt(sequences[Strips[k].seq],
                 <<Strips[k].track, Strips[k].clip>>).file_path.str
              \notin {<< >>, NoneString}

(***************************************************************************)
(* C3: an error of the host's new_movie / new_sound call is a per-clip     *)
(* failure: it never ends the run.                                         *)
(***************************************************************************)
C3_PlacementErrorNotFatal == ~(pc = "aborted" /\ error = "RuntimeError")

(***************************************************************************)
(* C4: after a run each unresolved raw path is in the missing report once, *)
(* and the reported count is the number of distinct unresolved raw paths.  *)
(***************************************************************************)
C4_MissingAggregatedByPath ==
    pc = "finished" =>
        /\ \A i, j \in DOMAIN missing_files :
              i # j => missing_files[i] # missing_files[j]
        /\ \A k \in DOMAIN report : report[k] = Cardinality(Range(missing_files))

(***************************************************************************)
(* C5: extraction never fails on a child that is absent or empty, and      *)
(* gives the field its default: sequence name "Unnamed Sequence",          *)
(* duration 0, rate 30, width 1920, height 1080, clip name "Unnamed Clip", *)
(* in 0, end = start + 100 when end is absent, out = end when out is       *)
(* absent.                                                                 *)
(***************************************************************************)
Missing(child) == ~child.present \/ child.text.isNone

\* every number of the document is absent, empty or a numeral
Defaultable(node, fields) ==
    \A f \in fields : Missing(node[f]) \/ IsNumeral(node[f].text.str)

C5_ExtractionDefaults ==
    LET found == SequenceNodes(document.nodes)
        covered ==
            \A i \in DOMAIN found :
                /\ Defaultable(found[i].node, {"duration", "timebase", "width", "height"})
                /\ \A t \in DOMAIN found[i].tracks : \A c \in DOMAIN found[i].tracks[t] :
                      Defaultable(found[i].tracks[t][c], {"start", "end", "in", "out"})
    IN  (document.wellFormed /\ covered /\ pc \notin {"idle", "parse"}) =>
            /\ error \notin {"AttributeError", "ValueError"}
            /\ Len(sequences) = Len(found)
            /\ \A i \in DOMAIN found :
                  LET node == found[i].node
                      seq == sequences[i]
                  IN  /\ Missing(node.name) => seq.name = PyStr(UnnamedSequence)
                      /\ Missing(node.duration) => seq.duration = 0
                      /\ Missing(node.timebase) => seq.rate = 30
                      /\ Missing(node.width) => seq.width = 1920
                      /\ Missing(node.height) => seq.height = 1080
                      /\ \A t \in DOMAIN found[i].tracks :
                         \A c \in DOMAIN found[i].tracks[t] :
                            LET item == found[i].tracks[t][c]
                                clip == seq.tracks[t].clips[c]
                            IN  /\ Missing(item.name) => clip.name = PyStr(UnnamedClip)
                                /\ Missing(item.in) => clip.in_frame = 0
                                /\ ~item.end.present => clip.end = clip.start + 100
                                /\ ~item.out.present => clip.out_frame = clip.end

(***************************************************************************)
(* C7 as stated: for a non-empty raw path the result is (1) the path       *)
(* stored under the case-folded basename when that is a key, (2) otherwise *)
(* the path of the first key that contains the case-folded basename, (3)   *)
(* otherwise empty; "footage/clip_A.mov" with only "A_clip_A_final.mov"    *)
(* indexed resolves to that file.                                          *)
(***************************************************************************)
FirstContaining(cache, b) ==
    CHOOSE i \in DOMAIN cache :
        /\ IsSubstr(b, cache[i].name)
        /\ \A j \in 1..(i - 1) : ~IsSubstr(b, cache[j].name)

\* the result the three strategies give for the looked-up name b
ByStrategies(cache, b) ==
    IF \E i \in DOMAIN cache : cache[i].name = b
    THEN cache[CHOOSE i \in DOMAIN cache : cache[i].name = b].path
    ELSE IF \E i \in DOMAIN cache : IsSubstr(b, cache[i].name)
    THEN cache[FirstContaining(cache, b)].path
    ELSE << >>

Keys(cache) == {cache[i].name : i \in DOMAIN cache}

InTree(d, raw) ==
    \E i \in DOMAIN fs[d].files :
        normcase(platform, fs[d].files[i]) = normcase(platform, basename(platform, raw))

C10_SecondPassWithoutReparse ==
    prev_missing # << >> =>
        /\ parses = 1
        /\ \A i \in DOMAIN prev_cache : HasKey(file_cache, prev_cache[i].name)
        /\ pc = "finished" =>
              \A m \in Range(prev_missing) :
                  InTree(search_paths[Len(search_paths)], m)
                      => m \notin Range(missing_files)

====
